---------------------------- MODULE Spec2Model ----------------------------
(***************************************************************************)
(* The greedy insertion solver of src/services/vrptwService.ts             *)
(* (solveVRPTW) and the distance/time model it relies on                   *)
(* (calculateDistance, generateTimeMatrix), with the caller of             *)
(* App.handleSolve, and the handlers of the configuration panel and of the  *)
(* map that edit the lists of customers and vehicles.                      *)
(*                                                                         *)
(* Numbers.  Coordinates are integers counting hundredths of a degree;     *)
(* all modelled locations lie on one meridian (lng equal), where the       *)
(* Haversine formula reduces to R * |dLat| (in radians).  Distances are    *)
(* kept in whole metres.  Times are minutes.                               *)
(* Indices.  TLA+ sequences start at 1: a JavaScript index i is i + 1      *)
(* here, and the "not found" / "none yet" value -1 is 0 here.              *)
(***************************************************************************)
EXTENDS Integers, Sequences, FiniteSets, TLC

VARIABLES
    depot,                \* argument depot of solveVRPTW
    customers,            \* argument customers
    vehicles,             \* argument vehicles
    timeMatrix,           \* argument timeMatrix
    sortedCustomers,      \* const sortedCustomers
    routes,               \* const routes
    unassignedLocations,  \* const unassignedLocations
    infeasibilityReasons, \* const infeasibilityReasons
    cursor,               \* position of the for-of loop over sortedCustomers
    pc,                   \* "idle" | "loop" | "done" | "raised"
    solution,             \* the returned VRPTWSolution (read only when pc = "done")
    isSolving,            \* App: useState(false)
    pending,              \* App: callbacks given to setTimeout that have not finished
    displayed             \* App: the solution state, <<>> for null

inputs == <<depot, customers, vehicles, timeMatrix>>
ui == <<isSolving, pending, displayed>>
vars == <<depot, customers, vehicles, timeMatrix, sortedCustomers, routes,
          unassignedLocations, infeasibilityReasons, cursor, pc, solution,
          isSolving, pending, displayed>>

---------------------------------------------------------------------------
(* Bounds of the model *)

MaxCustomers == 3
MaxVehicles == 2

\* latitudes (hundredths of a degree north of the depot) of the customers
Lats == {0, 1}
Demands == {1, 2}
\* the time data of a customer: <<readyTime, dueTime, serviceTime>>
Visits == {<<0, 2, 1>>, <<1, 4, 0>>}
Capacities == {2, 3}

CustomerIds == <<"c1", "c2", "c3", "c4", "c5">>
CustomerNames == <<"A", "B", "C", "D", "E">>
VehicleIds == <<"v1", "v2", "v3", "v4">>

---------------------------------------------------------------------------
(* Distance / time model *)

\* Radio de la Tierra en km
R == 6371
\* Number.MAX_VALUE, here the largest integer TLC represents
MAX_VALUE == 2147483647

Abs(x) == IF x < 0 THEN -x ELSE x

\* mutant: the difference of the latitudes keeps its sign
calculateDistance_Signed(lat1, lon1, lat2, lon2) ==
    (R * 31416 * (lat2 - lat1)) \div 180000

\* Haversine distance, in metres, of two points of one meridian:
\* R * c with c = |lat2 - lat1| * PI / 180, PI taken as 3.1416 and the
\* latitudes in hundredths of a degree.
calculateDistance(lat1, lon1, lat2, lon2) ==
    (R * 31416 * Abs(lat2 - lat1)) \div 180000

\* Math.round((distance / 50) * 60) for a distance in metres
TravelMinutes(distance) == (distance * 120 + 50000) \div 100000

generateTimeMatrix(locations) ==
    [i \in 1..Len(locations) |->
        [j \in 1..Len(locations) |->
            IF i = j THEN 0
            ELSE TravelMinutes(calculateDistance(locations[i].lat, locations[i].lng,
                                                 locations[j].lat, locations[j].lng))]]


---------------------------------------------------------------------------
(* Helpers of solveVRPTW *)

\* [...customers].sort((a, b) => a.readyTime - b.readyTime): a stable sort
\* of a copy, here by insertion from the left.
\* mutant: a customer goes in front of the customers of equal readyTime
RECURSIVE InsertSorted_Unstable(_, _)
InsertSorted_Unstable(sorted, c) ==
    IF sorted = <<>> THEN <<c>>
    ELSE IF sorted[Len(sorted)].readyTime < c.readyTime THEN Append(sorted, c)
    ELSE Append(InsertSorted_Unstable(SubSeq(sorted, 1, Len(sorted) - 1), c),
                sorted[Len(sorted)])

RECURSIVE InsertSorted(_, _)
InsertSorted(sorted, c) ==
    IF sorted = <<>> THEN <<c>>
    ELSE IF sorted[Len(sorted)].readyTime <= c.readyTime THEN Append(sorted, c)
    ELSE Append(InsertSorted(SubSeq(sorted, 1, Len(sorted) - 1), c), sorted[Len(sorted)])

\* mutant: the customers are tried in input order
SortByReadyTime_InputOrder(cs) == cs

RECURSIVE SortByReadyTime(_)
SortByReadyTime(cs) ==
    IF cs = <<>> THEN <<>>
    ELSE InsertSorted(SortByReadyTime(SubSeq(cs, 1, Len(cs) - 1)), cs[Len(cs)])

\* vehicles.map(vehicle => ({ vehicleId: vehicle.id, locations: [depot], ... }))
NewRoute(vehicle) ==
    [vehicleId |-> vehicle.id,
     locations |-> <<depot>>,
     totalDistance |-> 0,
     totalTime |-> 0,
     feasible |-> TRUE,
     infeasibilityReason |-> <<>>]

\* vehicles.find(v => v.id === route.vehicleId)!
FindVehicle(vehicleId) ==
    LET hits == {v \in 1..Len(vehicles) : vehicles[v].id = vehicleId}
    IN  vehicles[CHOOSE v \in hits : \A w \in hits : v <= w]

\* route.locations.reduce((sum, loc) => sum + loc.demand, 0)
RECURSIVE TotalDemand(_)
TotalDemand(locations) ==
    IF locations = <<>> THEN 0
    ELSE TotalDemand(SubSeq(locations, 1, Len(locations) - 1))
         + locations[Len(locations)].demand

\* mutant: the load already on the route is left out of the check
CapacityExceeded_CustomerOnly(route, customer) ==
    customer.demand > FindVehicle(route.vehicleId).capacity

\* totalDemand + customer.demand > vehicle.capacity
CapacityExceeded(route, customer) ==
    TotalDemand(route.locations) + customer.demand
        > FindVehicle(route.vehicleId).capacity

\* mutant: the depot is left out of the list that is searched
FindIndex_CustomersOnly(loc) ==
    LET hits == {i \in 1..Len(customers) : customers[i].id = loc.id}
    IN  IF hits = {} THEN 0 ELSE CHOOSE i \in hits : \A j \in hits : i <= j

\* [...customers, depot].findIndex(l => l.id === loc.id); 0 when not found
FindIndex(loc) ==
    LET all == customers \o <<depot>>
        hits == {i \in 1..Len(all) : all[i].id = loc.id}
    IN  IF hits = {} THEN 0 ELSE CHOOSE i \in hits : \A j \in hits : i <= j

\* route.locations[i + 1] || depot
NextOf(route, i) ==
    IF i + 1 <= Len(route.locations) THEN route.locations[i + 1] ELSE depot

\* timeMatrix[i] is a row: reading an entry of a missing row raises a TypeError
HasRow(i) == i \in 1..Len(timeMatrix)

\* timeMatrix[i][j] is a number; the entry a short row lacks reads as undefined
HasEntry(a, b) ==
    /\ HasRow(FindIndex(a))
    /\ FindIndex(b) \in 1..Len(timeMatrix[FindIndex(a)])

\* the reads of lines 94-96 raise: the row of prev or of the customer is missing
SlotRaises(prev, customer) == ~HasRow(FindIndex(prev)) \/ ~HasRow(FindIndex(customer))

\* increase is a number and not NaN: the three entries it is made of exist
IncreaseIsNumber(prev, customer, next) ==
    HasEntry(prev, customer) /\ HasEntry(customer, next) /\ HasEntry(prev, next)

TimeToCustomer(prev, customer) == timeMatrix[FindIndex(prev)][FindIndex(customer)]
TimeFromCustomer(customer, next) == timeMatrix[FindIndex(customer)][FindIndex(next)]

\* mutant: the leg from prev to next that the insertion removes is not subtracted
Increase_NoSaving(prev, customer, next) ==
    TimeToCustomer(prev, customer) + TimeFromCustomer(customer, next)

\* timeToCustomer + timeFromCustomer - timeMatrix[prevIndex][nextIndex]
Increase(prev, customer, next) ==
    TimeToCustomer(prev, customer) + TimeFromCustomer(customer, next)
        - timeMatrix[FindIndex(prev)][FindIndex(next)]

\* mutant: the travel time to the customer is left out of the arrival time
ArrivalTime_NoTravel(route, prev, customer) ==
    IF route.totalTime < customer.readyTime THEN customer.readyTime ELSE route.totalTime

\* arrivalTime: route.totalTime + timeToCustomer, raised to readyTime
ArrivalTime(route, prev, customer) ==
    LET arrivalTime == route.totalTime + TimeToCustomer(prev, customer)
    IN  IF arrivalTime < customer.readyTime THEN customer.readyTime ELSE arrivalTime

\* mutant: an arrival at dueTime is late
DirectLate_AtDue(route, prev, customer) ==
    /\ HasEntry(prev, customer)
    /\ ArrivalTime(route, prev, customer) >= customer.dueTime

\* arrivalTime > customer.dueTime (false for the NaN of an undefined entry)
DirectLate(route, prev, customer) ==
    /\ HasEntry(prev, customer)
    /\ ArrivalTime(route, prev, customer) > customer.dueTime

\* mutant: the return to the depot is checked against the depot's dueTime too
CascadeLate_DepotToo(route, prev, customer, next) ==
    LET departureTime == ArrivalTime(route, prev, customer) + customer.serviceTime
        arrivalNextTime == departureTime + TimeFromCustomer(customer, next)
    IN  /\ HasEntry(prev, customer) /\ HasEntry(customer, next)
        /\ arrivalNextTime > next.dueTime

\* next.id !== depot.id && arrivalNextTime > next.dueTime (false for NaN)
CascadeLate(route, prev, customer, next) ==
    LET departureTime == ArrivalTime(route, prev, customer) + customer.serviceTime
        arrivalNextTime == departureTime + TimeFromCustomer(customer, next)
    IN  /\ next.id # depot.id
        /\ HasEntry(prev, customer) /\ HasEntry(customer, next)
        /\ arrivalNextTime > next.dueTime

\* mutant: the position of prev is recorded instead of the one after it
KeepBest_AtPrev(acc, r, i, increase) ==
    IF increase < acc.bestIncrease
    THEN [acc EXCEPT !.bestIncrease = increase,
                     !.bestRouteIndex = r,
                     !.bestPosition = i]
    ELSE acc

\* mutant: a slot of equal cost replaces the best one found so far
KeepBest_LastWins(acc, r, i, increase) ==
    IF increase <= acc.bestIncrease
    THEN [acc EXCEPT !.bestIncrease = increase,
                     !.bestRouteIndex = r,
                     !.bestPosition = i + 1]
    ELSE acc

\* if (increase < bestIncrease) { bestIncrease = increase; bestRouteIndex = r; ... }
KeepBest(acc, r, i, increase) ==
    IF increase < acc.bestIncrease
    THEN [acc EXCEPT !.bestIncrease = increase,
                     !.bestRouteIndex = r,
                     !.bestPosition = i + 1]
    ELSE acc

\* mutant: the reason names the customer by its id
CapacityReason_ById(customer) == <<"Capacidad insuficiente para cliente", customer.id>>

\* `Capacidad insuficiente para cliente ${customer.name}`
CapacityReason(customer) == <<"Capacidad insuficiente para cliente", customer.name>>

\* `No se puede llegar a tiempo a ${customer.name}`
LateReason(customer) == <<"No se puede llegar a tiempo a", customer.name>>

\* `La insercion de ${customer.name} causaria retraso en siguiente cliente`
CascadeReason(customer) ==
    <<"La insercion de", customer.name, "causaria retraso en siguiente cliente">>

\* mutant: the first reason recorded on a route is kept
SetReason_KeepFirst(acc, r, reason) ==
    IF acc.routes[r].infeasibilityReason = <<>>
    THEN [acc EXCEPT !.routes[r].infeasibilityReason = reason]
    ELSE acc

\* route.infeasibilityReason = ...
SetReason(acc, r, reason) ==
    [acc EXCEPT !.routes[r].infeasibilityReason = reason]

\* the inner loop over the positions of route r, from position i on
RECURSIVE ScanSlots(_, _, _, _)
ScanSlots(acc, r, customer, i) ==
    LET route == acc.routes[r] IN
    IF i > Len(route.locations) THEN acc
    ELSE
      LET prev == route.locations[i]
          next == NextOf(route, i)
      IN
      IF FindIndex(prev) = 0 \/ FindIndex(customer) = 0 \/ FindIndex(next) = 0
      THEN ScanSlots(acc, r, customer, i + 1)
      ELSE IF SlotRaises(prev, customer)
      THEN [acc EXCEPT !.raised = TRUE]
      ELSE IF DirectLate(route, prev, customer)
      THEN ScanSlots(SetReason(acc, r, LateReason(customer)),
                     r, customer, i + 1)
      ELSE IF CascadeLate(route, prev, customer, next)
      THEN ScanSlots(SetReason(acc, r, CascadeReason(customer)),
                     r, customer, i + 1)
      ELSE IF ~IncreaseIsNumber(prev, customer, next)
      THEN ScanSlots([acc EXCEPT !.assignmentPossible = TRUE], r, customer, i + 1)
      ELSE ScanSlots(KeepBest([acc EXCEPT !.assignmentPossible = TRUE],
                              r, i, Increase(prev, customer, next)),
                     r, customer, i + 1)

\* the loop over the routes, from route r on
RECURSIVE ScanRoutes(_, _, _)
ScanRoutes(acc, customer, r) ==
    IF r > Len(acc.routes) \/ acc.raised THEN acc
    ELSE IF CapacityExceeded(acc.routes[r], customer)
    THEN ScanRoutes(SetReason(acc, r, CapacityReason(customer)),
                    customer, r + 1)
    ELSE ScanRoutes(ScanSlots(acc, r, customer, 1), customer, r + 1)

\* mutant: bestIncrease starts at 0 instead of Number.MAX_VALUE
Search_FromZero(customer) ==
    ScanRoutes([routes |-> routes,
                bestRouteIndex |-> 0,
                bestIncrease |-> 0,
                bestPosition |-> 0,
                assignmentPossible |-> FALSE,
                raised |-> FALSE],
               customer, 1)

\* the search of one iteration of the loop over sortedCustomers
Search(customer) ==
    ScanRoutes([routes |-> routes,
                bestRouteIndex |-> 0,
                bestIncrease |-> MAX_VALUE,
                bestPosition |-> 0,
                assignmentPossible |-> FALSE,
                raised |-> FALSE],
               customer, 1)

\* the sum of calculateDistance over the consecutive pairs of a route
RECURSIVE RouteDistance(_)
RouteDistance(locations) ==
    IF Len(locations) <= 1 THEN 0
    ELSE RouteDistance(SubSeq(locations, 1, Len(locations) - 1))
         + calculateDistance(locations[Len(locations) - 1].lat, locations[Len(locations) - 1].lng,
                             locations[Len(locations)].lat, locations[Len(locations)].lng)

\* route.locations.splice(bestPosition, 0, customer)
Splice(locations, position, customer) ==
    SubSeq(locations, 1, position - 1) \o <<customer>>
        \o SubSeq(locations, position, Len(locations))

\* mutant: the insertion cost is not added to totalTime
InsertInto_KeepTime(route, position, increase, customer) ==
    LET locations == Splice(route.locations, position, customer)
    IN  [route EXCEPT !.locations = locations,
                      !.totalDistance = RouteDistance(locations)]

\* the assignment of the customer to the best route found
InsertInto(route, position, increase, customer) ==
    LET locations == Splice(route.locations, position, customer)
    IN  [route EXCEPT !.locations = locations,
                      !.totalTime = @ + increase,
                      !.totalDistance = RouteDistance(locations)]

\* mutant: the depot is appended but totalDistance is not recomputed
CloseRoute_StaleDistance(route) ==
    IF Len(route.locations) > 1
       /\ route.locations[Len(route.locations)].id # depot.id
    THEN [route EXCEPT !.locations = Append(route.locations, depot)]
    ELSE route

\* mutant: the depot is appended to every route, also to one holding only the depot
CloseRoute_Always(route) ==
    LET locations == Append(route.locations, depot)
    IN  [route EXCEPT !.locations = locations,
                      !.totalDistance = RouteDistance(locations)]

\* the closing of a route with the depot
CloseRoute(route) ==
    IF Len(route.locations) > 1
       /\ route.locations[Len(route.locations)].id # depot.id
    THEN LET locations == Append(route.locations, depot)
         IN  [route EXCEPT !.locations = locations,
                           !.totalDistance = RouteDistance(locations)]
    ELSE route

RECURSIVE SumField(_, _)
SumField(rs, field) ==
    IF rs = <<>> THEN 0
    ELSE SumField(SubSeq(rs, 1, Len(rs) - 1), field) + rs[Len(rs)][field]

\* mutant: feasible looks at the routes only
MakeSolution_RoutesOnly(rs) ==
    [routes |-> rs,
     unassignedLocations |-> unassignedLocations,
     totalDistance |-> SumField(rs, "totalDistance"),
     totalTime |-> SumField(rs, "totalTime"),
     feasible |-> (\A r \in 1..Len(rs) : rs[r].feasible),
     infeasibilityReasons |-> infeasibilityReasons]

\* the totals of the solution and the returned object
MakeSolution(rs) ==
    [routes |-> rs,
     unassignedLocations |-> unassignedLocations,
     totalDistance |-> SumField(rs, "totalDistance"),
     totalTime |-> SumField(rs, "totalTime"),
     feasible |-> (Len(unassignedLocations) = 0 /\ \A r \in 1..Len(rs) : rs[r].feasible),
     infeasibilityReasons |-> infeasibilityReasons]

---------------------------------------------------------------------------
(* The inputs *)

Depot ==
    [id |-> "depot", name |-> "Deposito", lat |-> 0, lng |-> 0, demand |-> 0,
     readyTime |-> 0, dueTime |-> 9, serviceTime |-> 0]

Customer(i, lat, demand, visit) ==
    [id |-> CustomerIds[i], name |-> CustomerNames[i], lat |-> lat, lng |-> 0,
     demand |-> demand, readyTime |-> visit[1], dueTime |-> visit[2],
     serviceTime |-> visit[3]]

CustomerData == Lats \X Demands \X Visits

CustomerLists ==
    UNION {
      {[i \in 1..n |-> Customer(i, d[i][1], d[i][2], d[i][3])] :
          d \in [1..n -> CustomerData]}
      : n \in 0..MaxCustomers}

Fleets ==
    UNION {
      {[v \in 1..n |-> [id |-> VehicleIds[v], capacity |-> capacity[v]]] :
          capacity \in [1..n -> Capacities]}
      : n \in 0..MaxVehicles}

InitSolver ==
    /\ sortedCustomers = <<>>
    /\ routes = <<>>
    /\ unassignedLocations = <<>>
    /\ infeasibilityReasons = <<>>
    /\ cursor = 0
    /\ pc = "idle"
    /\ solution = <<>>
    /\ isSolving = FALSE
    /\ pending = 0
    /\ displayed = <<>>

\* solveVRPTW called with a matrix in the order of its contract
Init ==
    /\ depot = Depot
    /\ customers \in CustomerLists
    /\ vehicles \in Fleets
    /\ timeMatrix = generateTimeMatrix(customers \o <<depot>>)
    /\ InitSolver

---------------------------------------------------------------------------
(* solveVRPTW, one action per step *)

\* mutant: customers.sort(...) without the copy sorts the argument in place
Call_SortInPlace ==
    /\ pc = "idle"
    /\ sortedCustomers' = SortByReadyTime(customers)
    /\ customers' = SortByReadyTime(customers)
    /\ routes' = [v \in 1..Len(vehicles) |-> NewRoute(vehicles[v])]
    /\ unassignedLocations' = <<>>
    /\ infeasibilityReasons' = <<>>
    /\ cursor' = 1
    /\ pc' = "loop"
    /\ UNCHANGED <<depot, vehicles, timeMatrix, solution, ui>>

\* entry: the sorted copy, the routes, the empty result lists
Call ==
    /\ pc = "idle"
    /\ sortedCustomers' = SortByReadyTime(customers)
    /\ routes' = [v \in 1..Len(vehicles) |-> NewRoute(vehicles[v])]
    /\ unassignedLocations' = <<>>
    /\ infeasibilityReasons' = <<>>
    /\ cursor' = 1
    /\ pc' = "loop"
    /\ UNCHANGED <<depot, customers, vehicles, timeMatrix, solution, ui>>

\* mutant: without the else, an assigned customer is also pushed to unassignedLocations
AssignCustomer_AlsoUnassigned(found, customer) ==
    /\ routes' = [found.routes EXCEPT ![found.bestRouteIndex] =
                     InsertInto(@, found.bestPosition, found.bestIncrease, customer)]
    /\ unassignedLocations' = Append(unassignedLocations, customer)
    /\ UNCHANGED infeasibilityReasons

\* if (bestRouteIndex !== -1): the customer goes into the best route
AssignCustomer(found, customer) ==
    /\ routes' = [found.routes EXCEPT ![found.bestRouteIndex] =
                     InsertInto(@, found.bestPosition, found.bestIncrease, customer)]
    /\ UNCHANGED <<unassignedLocations, infeasibilityReasons>>

\* mutant: every unassigned customer gets a reason
RejectCustomer_AlwaysReason(found, customer) ==
    /\ routes' = found.routes
    /\ unassignedLocations' = Append(unassignedLocations, customer)
    /\ infeasibilityReasons' =
         Append(infeasibilityReasons,
                <<"No se pudo asignar", customer.name,
                  "debido a restricciones de tiempo o capacidad">>)

\* else: the customer goes to unassignedLocations
RejectCustomer(found, customer) ==
    /\ routes' = found.routes
    /\ unassignedLocations' = Append(unassignedLocations, customer)
    /\ infeasibilityReasons' =
         IF ~found.assignmentPossible
         THEN Append(infeasibilityReasons,
                     <<"No se pudo asignar", customer.name,
                       "debido a restricciones de tiempo o capacidad">>)
         ELSE infeasibilityReasons

\* a TypeError leaves solveVRPTW: nothing is returned
RaiseTypeError ==
    /\ pc' = "raised"
    /\ UNCHANGED <<routes, unassignedLocations, infeasibilityReasons, cursor>>

\* one iteration of the loop over sortedCustomers
ProcessCustomer ==
    /\ pc = "loop"
    /\ cursor <= Len(sortedCustomers)
    /\ LET customer == sortedCustomers[cursor]
           found == Search(customer)
       IN  IF found.raised
           THEN RaiseTypeError
           ELSE /\ IF found.bestRouteIndex # 0
                   THEN AssignCustomer(found, customer)
                   ELSE RejectCustomer(found, customer)
                /\ cursor' = cursor + 1
                /\ pc' = pc
    /\ UNCHANGED <<depot, customers, vehicles, timeMatrix, sortedCustomers, solution, ui>>

\* after the loop: the depot closes the routes, the totals, the return
Return ==
    /\ pc = "loop"
    /\ cursor > Len(sortedCustomers)
    /\ routes' = [r \in 1..Len(routes) |-> CloseRoute(routes[r])]
    /\ solution' = MakeSolution(routes')
    /\ pc' = "done"
    /\ UNCHANGED <<depot, customers, vehicles, timeMatrix, sortedCustomers,
                   unassignedLocations, infeasibilityReasons, cursor, ui>>

Next == Call \/ ProcessCustomer \/ Return

Spec == Init /\ [][Next]_vars

---------------------------------------------------------------------------
(* The caller: App builds the matrix in an effect and passes it on solve *)

\* const allLocations = [depot, ...customers]; generateTimeMatrix(allLocations)
AppTimeMatrix == generateTimeMatrix(<<depot>> \o customers)

\* the state in which handleSolve calls solveVRPTW(depot, customers, vehicles,
\* config.timeMatrix)
InitApp ==
    /\ depot = Depot
    /\ customers \in CustomerLists
    /\ vehicles \in Fleets
    /\ timeMatrix = AppTimeMatrix
    /\ InitSolver

SpecApp == InitApp /\ [][Next]_vars

---------------------------------------------------------------------------
(* The application computing the matrix of its locations, up to 0.03 degree *)
(* apart                                                                     *)

MatrixLats == 0..3

MatrixCustomers ==
    UNION {{[i \in 1..n |-> Customer(i, lats[i], 1, <<0, 2, 1>>)] :
               lats \in [1..n -> MatrixLats]} : n \in 0..MaxCustomers}

InitMatrix ==
    /\ depot = Depot
    /\ customers \in MatrixCustomers
    /\ vehicles = <<>>
    /\ timeMatrix = <<>>
    /\ InitSolver

\* useEffect: setTimeMatrix(generateTimeMatrix([depot, ...customers]))
GenerateMatrix ==
    /\ pc = "idle"
    /\ timeMatrix = <<>>
    /\ timeMatrix' = generateTimeMatrix(<<depot>> \o customers)
    /\ UNCHANGED <<depot, customers, vehicles, sortedCustomers, routes,
                   unassignedLocations, infeasibilityReasons, cursor, pc, solution, ui>>

SpecMatrix == InitMatrix /\ [][GenerateMatrix]_vars

---------------------------------------------------------------------------
(* The solve button of the application.  App starts with config.timeMatrix  *)
(* = [] and computes the matrix in an effect; handleSolve defers the call   *)
(* of solveVRPTW with setTimeout.                                           *)

InitUI ==
    /\ depot = Depot
    /\ customers \in {cs \in CustomerLists : Len(cs) <= 1}
    /\ vehicles \in {f \in Fleets : Len(f) <= 1}
    /\ timeMatrix = <<>>
    /\ InitSolver

\* the effect; a callback already scheduled keeps the config of its render
EffectRuns == pending = 0 /\ GenerateMatrix

\* onClick of the button, which is disabled while isSolving:
\* setIsSolving(true); setTimeout(...)
ClickSolve ==
    /\ ~isSolving
    /\ pc = "idle"
    /\ isSolving' = TRUE
    /\ pending' = pending + 1
    /\ UNCHANGED <<depot, customers, vehicles, timeMatrix, sortedCustomers, routes,
                   unassignedLocations, infeasibilityReasons, cursor, pc, solution,
                   displayed>>

\* the callback starts: solveVRPTW(depot, customers, vehicles, config.timeMatrix)
TimerFires == pending > 0 /\ Call

\* solveVRPTW returned: setSolution(newSolution); finally setIsSolving(false)
SolveReturned ==
    /\ pc = "done"
    /\ displayed' = solution
    /\ isSolving' = FALSE
    /\ pending' = pending - 1
    /\ pc' = "idle"
    /\ UNCHANGED <<depot, customers, vehicles, timeMatrix, sortedCustomers, routes,
                   unassignedLocations, infeasibilityReasons, cursor, solution>>

\* mutant: setIsSolving(false) at the end of the try block, without finally
SolveThrew_NoFinally ==
    /\ pc = "raised"
    /\ pending' = pending - 1
    /\ pc' = "idle"
    /\ UNCHANGED <<depot, customers, vehicles, timeMatrix, sortedCustomers, routes,
                   unassignedLocations, infeasibilityReasons, cursor, solution,
                   isSolving, displayed>>

\* solveVRPTW threw: catch logs the error; finally setIsSolving(false)
SolveThrew ==
    /\ pc = "raised"
    /\ isSolving' = FALSE
    /\ pending' = pending - 1
    /\ pc' = "idle"
    /\ UNCHANGED <<depot, customers, vehicles, timeMatrix, sortedCustomers, routes,
                   unassignedLocations, infeasibilityReasons, cursor, solution,
                   displayed>>

NextUI ==
    \/ EffectRuns \/ ClickSolve \/ TimerFires \/ ProcessCustomer \/ Return
    \/ SolveReturned \/ SolveThrew

\* the steps of the callback given to setTimeout
Callback == TimerFires \/ ProcessCustomer \/ Return \/ SolveReturned \/ SolveThrew

\* the timer fires after its delay and the callback runs to its end
SpecUI == InitUI /\ [][NextUI]_vars /\ WF_vars(Callback)

---------------------------------------------------------------------------
(* Calls with a depot that closes at time 0: no return to it is in time *)

EarlyDepot == [Depot EXCEPT !.dueTime = 0]

InitEarlyDepot ==
    /\ depot = EarlyDepot
    /\ customers \in CustomerLists
    /\ vehicles \in Fleets
    /\ timeMatrix = generateTimeMatrix(customers \o <<depot>>)
    /\ InitSolver

SpecEarlyDepot == InitEarlyDepot /\ [][Next]_vars

---------------------------------------------------------------------------
(* Calls with one customer, over wider demands, windows and distances *)

SingleCustomerLists ==
    {<<Customer(1, lat, demand, <<readyTime, dueTime, serviceTime>>)>> :
        lat \in 0..2, demand \in 1..4, readyTime \in 0..3, dueTime \in 0..3,
        serviceTime \in {0, 1}}

InitOne ==
    /\ depot = Depot
    /\ customers \in SingleCustomerLists
    /\ vehicles \in Fleets
    /\ timeMatrix = generateTimeMatrix(customers \o <<depot>>)
    /\ InitSolver

SpecOne == InitOne /\ [][Next]_vars

---------------------------------------------------------------------------
(* Calls with two customers at the same coordinates *)

PairWindows == {<<0, 0>>, <<0, 1>>, <<1, 1>>, <<1, 2>>, <<2, 3>>, <<3, 3>>, <<4, 5>>}

ColocatedPairs ==
    {<<Customer(1, lat, d1, <<w1[1], w1[2], s1>>),
       Customer(2, lat, d2, <<w2[1], w2[2], s2>>)>> :
        lat \in 0..2, d1 \in Demands, d2 \in Demands,
        w1 \in PairWindows, w2 \in PairWindows, s1 \in {0, 1}, s2 \in {0, 1}}

InitPair ==
    /\ depot = Depot
    /\ customers \in ColocatedPairs
    /\ vehicles \in Fleets
    /\ timeMatrix = generateTimeMatrix(customers \o <<depot>>)
    /\ InitSolver

SpecPair == InitPair /\ [][Next]_vars

---------------------------------------------------------------------------
(* Calls with a malformed matrix: rows or columns are missing *)

WithoutLastRow(m) == SubSeq(m, 1, Len(m) - 1)
WithoutLastColumn(m) == [i \in 1..Len(m) |-> SubSeq(m[i], 1, Len(m[i]) - 1)]

MalformedMatrices(m) ==
    {<<>>, WithoutLastRow(m), WithoutLastColumn(m), WithoutLastColumn(WithoutLastRow(m))}

InitMalformed ==
    /\ depot = Depot
    /\ customers \in {cs \in CustomerLists : Len(cs) <= 2}
    /\ vehicles \in Fleets
    /\ timeMatrix \in MalformedMatrices(generateTimeMatrix(customers \o <<depot>>))
    /\ InitSolver

SpecMalformed == InitMalformed /\ [][Next]_vars

---------------------------------------------------------------------------
(* Calls of Spec, and calls with one customer and a square matrix whose     *)
(* entries are 0 or Number.MAX_VALUE                                        *)

HugeMatrices == [1..2 -> [1..2 -> {0, MAX_VALUE}]]

InitHuge ==
    /\ depot = Depot
    /\ customers \in {cs \in CustomerLists : Len(cs) = 1}
    /\ vehicles \in Fleets
    /\ timeMatrix \in HugeMatrices
    /\ InitSolver

InitWide == Init \/ InitHuge

SpecWide == InitWide /\ [][Next]_vars


---------------------------------------------------------------------------
(* Properties *)

Started == pc \in {"loop", "done"}
Returned == pc = "done"

UniqueIds(seq) == \A i, j \in 1..Len(seq) : seq[i].id = seq[j].id => i = j

RECURSIVE SumTo(_, _)
SumTo(f, n) == IF n = 0 THEN 0 ELSE SumTo(f, n - 1) + f[n]

\* the slots the search evaluates on a route: each location as prev, its
\* successor (after the last location, the depot) as next
SlotFeasible(route, i, customer) ==
    LET prev == route.locations[i]
        next == NextOf(route, i)
    IN  /\ ~CapacityExceeded(route, customer)
        /\ FindIndex(prev) # 0 /\ FindIndex(customer) # 0 /\ FindIndex(next) # 0
        /\ ~DirectLate(route, prev, customer)
        /\ ~CascadeLate(route, prev, customer, next)

HasCustomers(route) == \E i \in 1..Len(route.locations) : route.locations[i].id # depot.id

\* C1: with depot demand 0, non-negative customer demands and unique vehicle
\* ids, after every insertion step and in the returned solution the demands
\* of the locations of each route sum to at most the capacity of the vehicle
\* the route's vehicleId names.
C1_CapacityRespected ==
    (/\ depot.demand = 0
     /\ \A c \in 1..Len(customers) : customers[c].demand >= 0
     /\ UniqueIds(vehicles)
     /\ Started)
    => /\ \A r \in 1..Len(routes) :
            TotalDemand(routes[r].locations) <= FindVehicle(routes[r].vehicleId).capacity
       /\ Returned =>
            \A r \in 1..Len(solution.routes) :
                TotalDemand(solution.routes[r].locations)
                    <= FindVehicle(solution.routes[r].vehicleId).capacity

\* a returned route that is loaded and on which a customer was refused for capacity
C1_Witness ==
    /\ Returned
    /\ \E r \in 1..Len(solution.routes) :
        /\ HasCustomers(solution.routes[r])
        /\ solution.routes[r].infeasibilityReason # <<>>
        /\ solution.routes[r].infeasibilityReason[1] = "Capacidad insuficiente para cliente"

\* C2 (as claimed): for every customer of the returned unassignedLocations no
\* returned route has an adjacent pair (prev, next) for which the capacity
\* check, the direct time-window check and the cascading-delay check all
\* pass against the route's final locations, demand and totalTime.
C2_FixedPoint ==
    Returned =>
        \A u \in 1..Len(solution.unassignedLocations) :
            \A r \in 1..Len(solution.routes) :
                \A i \in 1..(Len(solution.routes[r].locations) - 1) :
                    ~SlotFeasible(solution.routes[r], i, solution.unassignedLocations[u])

\* C2 (amended): whenever a customer is appended to unassignedLocations, no
\* route has, at that moment, a slot that passes the capacity check, the
\* direct time-window check and the cascading-delay check with an insertion
\* cost below Number.MAX_VALUE.
C2_NoSlotWhenProcessed ==
    [][Len(unassignedLocations') > Len(unassignedLocations) =>
        LET customer == unassignedLocations'[Len(unassignedLocations')]
        IN  \A r \in 1..Len(routes) :
                \A i \in 1..Len(routes[r].locations) :
                    ~(/\ SlotFeasible(routes[r], i, customer)
                      /\ Increase(routes[r].locations[i], customer, NextOf(routes[r], i))
                            < MAX_VALUE)]_vars

\* a customer was refused by routes that already hold customers
C2_Witness ==
    /\ Started
    /\ Len(unassignedLocations) > 0
    /\ \E r \in 1..Len(routes) :
        /\ HasCustomers(routes[r])
        /\ ~CapacityExceeded(routes[r], unassignedLocations[1])

\* C3: a customer is only ever inserted after the first location, and in the
\* returned solution every route starts and ends at the depot, a route that
\* received a customer having the depot appended at its end.
C3_RoutesStartAndEndAtDepot ==
    /\ Started =>
        \A r \in 1..Len(routes) : routes[r].locations[1] = depot
    /\ Returned =>
        \A r \in 1..Len(solution.routes) :
            LET locations == solution.routes[r].locations
            IN  /\ locations[1].id = depot.id
                /\ locations[Len(locations)].id = depot.id
                /\ HasCustomers(solution.routes[r]) => Len(locations) >= 3

\* a returned route with two customers between the depots
C3_Witness ==
    /\ Returned
    /\ \E r \in 1..Len(solution.routes) : Len(solution.routes[r].locations) = 4

SlotsHolding(rs, id) ==
    UNION {{<<r, i>> : i \in {j \in 1..Len(rs[r].locations) : rs[r].locations[j].id = id}}
           : r \in 1..Len(rs)}

PlacesHolding(seq, id) == {i \in 1..Len(seq) : seq[i].id = id}

\* C4: with unique customer ids, each input customer is in the returned
\* solution exactly once: once in one route, or once in unassignedLocations.
C4_EachCustomerOnce ==
    (Returned /\ UniqueIds(customers)) =>
        \A c \in 1..Len(customers) :
            Cardinality(SlotsHolding(solution.routes, customers[c].id))
              + Cardinality(PlacesHolding(solution.unassignedLocations, customers[c].id)) = 1

\* a solution with customers on two routes and an unassigned customer
C4_Witness ==
    /\ Returned
    /\ Len(solution.unassignedLocations) = 1
    /\ Len(solution.routes) = 2
    /\ \A r \in 1..2 : HasCustomers(solution.routes[r])

\* C5: the returned feasible flag is true exactly when unassignedLocations is
\* empty and every route is feasible; every returned route has feasible =
\* true, so the flag is equivalent to unassignedLocations being empty.
C5_FeasibleFlag ==
    Returned =>
        /\ solution.feasible <=>
              (/\ Len(solution.unassignedLocations) = 0
               /\ \A r \in 1..Len(solution.routes) : solution.routes[r].feasible)
        /\ \A r \in 1..Len(solution.routes) : solution.routes[r].feasible = TRUE
        /\ solution.feasible <=> (solution.unassignedLocations = <<>>)

\* an infeasible solution whose routes carry rejection reasons
C5_Witness ==
    /\ Returned
    /\ ~solution.feasible
    /\ \E r \in 1..Len(solution.routes) : solution.routes[r].infeasibilityReason # <<>>

\* C6: the returned totalDistance and totalTime are the sums over the routes,
\* and each route's totalDistance is the sum of calculateDistance over the
\* consecutive pairs of its final locations (0 for a route of the depot only).
C6_TotalsAreSums ==
    Returned =>
        LET rs == solution.routes
        IN  /\ solution.totalDistance
                 = SumTo([r \in 1..Len(rs) |-> rs[r].totalDistance], Len(rs))
            /\ solution.totalTime
                 = SumTo([r \in 1..Len(rs) |-> rs[r].totalTime], Len(rs))
            /\ \A r \in 1..Len(rs) :
                /\ rs[r].totalDistance = RouteDistance(rs[r].locations)
                /\ Len(rs[r].locations) = 1 => rs[r].totalDistance = 0

\* two routes that both cover a distance
C6_Witness ==
    /\ Returned
    /\ Len(solution.routes) = 2
    /\ \A r \in 1..2 : solution.routes[r].totalDistance > 0

\* C7: the matrix the application passes is generateTimeMatrix of
\* [...customers, depot]: entry [i][j] is the travel time between the i-th
\* and the j-th element of that list.
C7_MatrixInSolverOrder ==
    \A i, j \in 1..(Len(customers) + 1) :
        timeMatrix[i][j] = generateTimeMatrix(customers \o <<depot>>)[i][j]

InputLocations == {depot} \cup {customers[c] : c \in 1..Len(customers)}

\* C9: solveVRPTW leaves its inputs unchanged: customers keeps its elements
\* and their order, vehicles and the capacities are unchanged, and no field
\* of the depot or of a customer is modified (the locations of the routes
\* are the input locations).
C9_InputsUnchanged ==
    /\ [][depot' = depot /\ customers' = customers /\ vehicles' = vehicles]_vars
    /\ [](\A r \in 1..Len(routes) : \A i \in 1..Len(routes[r].locations) :
            routes[r].locations[i] \in InputLocations)

\* a call has returned whose sorted copy is ordered differently from customers
C9_Witness ==
    /\ Returned
    /\ sortedCustomers # customers
    /\ \E r \in 1..Len(solution.routes) : HasCustomers(solution.routes[r])

\* C10: with zero customers and N vehicles the solution has N routes, one per
\* vehicle in vehicle order, each holding the depot exactly once with
\* totalDistance 0 and totalTime 0; the totals are 0, unassignedLocations and
\* infeasibilityReasons are empty and feasible is true.
C10_NoCustomers ==
    (Returned /\ customers = <<>>) =>
        /\ Len(solution.routes) = Len(vehicles)
        /\ \A r \in 1..Len(solution.routes) :
            /\ solution.routes[r].vehicleId = vehicles[r].id
            /\ solution.routes[r].locations = <<depot>>
            /\ solution.routes[r].totalDistance = 0
            /\ solution.routes[r].totalTime = 0
        /\ solution.totalDistance = 0
        /\ solution.totalTime = 0
        /\ solution.unassignedLocations = <<>>
        /\ solution.infeasibilityReasons = <<>>
        /\ solution.feasible

\* the call with no customer and the largest fleet has returned
C10_Witness ==
    /\ Returned
    /\ customers = <<>>
    /\ Len(vehicles) = MaxVehicles

---------------------------------------------------------------------------
\* C11: a single customer whose dueTime is below the matrix travel time from
\* the depot to it is returned unassigned: every route holds only the depot
\* and the solution is not feasible, whatever the vehicles and capacities.

OnlyCustomer == customers[1]

\* the matrix entry from the depot to the only customer
DepotToOnlyCustomer == timeMatrix[Len(customers) + 1][1]

C11_UnreachableCustomer ==
    (Returned /\ Len(customers) = 1 /\ OnlyCustomer.dueTime < DepotToOnlyCustomer)
    => /\ solution.unassignedLocations = <<OnlyCustomer>>
       /\ \A r \in 1..Len(solution.routes) : solution.routes[r].locations = <<depot>>
       /\ ~solution.feasible

\* reached: two vehicles, one of which could carry the customer, and the
\* customer is refused for its time window
C11_Witness ==
    /\ Returned /\ Len(customers) = 1 /\ Len(vehicles) = 2
    /\ OnlyCustomer.dueTime < DepotToOnlyCustomer
    /\ OnlyCustomer.readyTime <= OnlyCustomer.dueTime
    /\ \E v \in 1..2 : OnlyCustomer.demand <= vehicles[v].capacity
    /\ \E r \in 1..2 : solution.routes[r].infeasibilityReason = LateReason(OnlyCustomer)
    /\ solution.unassignedLocations = <<OnlyCustomer>>

---------------------------------------------------------------------------
\* C12: a single customer whose demand exceeds every vehicle's capacity is
\* returned unassigned, and every route's infeasibilityReason is the capacity
\* reason naming that customer.

DemandAboveEveryCapacity ==
    \A v \in 1..Len(vehicles) : OnlyCustomer.demand > vehicles[v].capacity

C12_DemandAboveCapacity ==
    (Returned /\ Len(customers) = 1 /\ DemandAboveEveryCapacity)
    => /\ solution.unassignedLocations = <<OnlyCustomer>>
       /\ \A r \in 1..Len(solution.routes) :
             solution.routes[r].infeasibilityReason =
                 <<"Capacidad insuficiente para cliente", OnlyCustomer.name>>

\* reached: two vehicles of different capacities, both too small
C12_Witness ==
    /\ Returned /\ Len(customers) = 1 /\ Len(vehicles) = 2
    /\ vehicles[1].capacity # vehicles[2].capacity
    /\ DemandAboveEveryCapacity
    /\ OnlyCustomer.dueTime >= DepotToOnlyCustomer
    /\ Len(solution.routes) = 2
    /\ solution.unassignedLocations = <<OnlyCustomer>>

---------------------------------------------------------------------------
\* C13 (as stated): two customers at the same coordinates with non-overlapping
\* windows, and at least one vehicle whose capacity covers both demands, end
\* on the same route with the earlier-window customer before the later one.

Colocated ==
    customers[1].lat = customers[2].lat /\ customers[1].lng = customers[2].lng

NonOverlapping ==
    \/ customers[1].dueTime < customers[2].readyTime
    \/ customers[2].dueTime < customers[1].readyTime

EarlierCustomer ==
    IF customers[1].dueTime < customers[2].readyTime THEN customers[1] ELSE customers[2]

LaterCustomer ==
    IF customers[1].dueTime < customers[2].readyTime THEN customers[2] ELSE customers[1]

BothDemands == customers[1].demand + customers[2].demand

\* route r of the solution visits the earlier customer and, after it, the later one
EarlierThenLater(r) ==
    LET locations == solution.routes[r].locations
    IN  \E i, j \in 1..Len(locations) :
            /\ i < j
            /\ locations[i].id = EarlierCustomer.id
            /\ locations[j].id = LaterCustomer.id

C13_ColocatedSameRoute ==
    ( /\ Returned /\ Len(customers) = 2 /\ Colocated /\ NonOverlapping
      /\ \E v \in 1..Len(vehicles) : vehicles[v].capacity >= BothDemands )
    => \E r \in 1..Len(solution.routes) : EarlierThenLater(r)

\* the matrix entry between two locations of [...customers, depot]
Minutes(a, b) == timeMatrix[FindIndex(a)][FindIndex(b)]

\* the earlier customer passes the direct check on an empty route
EarlierReachable ==
    /\ Minutes(depot, EarlierCustomer) <= EarlierCustomer.dueTime
    /\ EarlierCustomer.readyTime <= EarlierCustomer.dueTime

\* totalTime of the route [depot, earlier]
TotalTimeWithEarlier ==
    Minutes(depot, EarlierCustomer) + Minutes(EarlierCustomer, depot) - Minutes(depot, depot)

\* the later customer passes the direct check after the earlier one
LaterReachable ==
    /\ TotalTimeWithEarlier + Minutes(EarlierCustomer, LaterCustomer) <= LaterCustomer.dueTime
    /\ LaterCustomer.readyTime <= LaterCustomer.dueTime

\* C13 (amended): when moreover the first vehicle's capacity covers both
\* demands, the earlier customer passes the direct check on an empty route and
\* that route's totalTime after the insertion plus the time to the later
\* customer is within the later customer's dueTime, both customers are on the
\* first vehicle's route, the earlier one before the later one, in either
\* input order.
C13_ColocatedFirstRoute ==
    ( /\ Returned /\ Len(customers) = 2 /\ Colocated /\ NonOverlapping
      /\ Len(vehicles) >= 1 /\ vehicles[1].capacity >= BothDemands
      /\ EarlierReachable /\ LaterReachable )
    => /\ EarlierThenLater(1)
       /\ solution.unassignedLocations = <<>>
       /\ \A r \in 2..Len(solution.routes) : solution.routes[r].locations = <<depot>>

\* reached: the later customer comes first in the input, away from the depot
C13_Witness ==
    /\ Returned /\ Len(customers) = 2 /\ Colocated /\ NonOverlapping
    /\ Len(vehicles) = 2 /\ vehicles[1].capacity >= BothDemands
    /\ EarlierReachable /\ LaterReachable
    /\ LaterCustomer = customers[1]
    /\ Minutes(depot, EarlierCustomer) > 0
    /\ EarlierThenLater(1)

---------------------------------------------------------------------------
\* C14: generateTimeMatrix of n locations is an n-by-n matrix with a zero
\* diagonal, whose entry [i][j] for i # j is the distance of i and j divided
\* by 50, times 60, rounded to the nearest integer, and which is symmetric.

\* e is x / 100000 rounded as Math.round does
IsRounded(e, x) == e * 100000 - 50000 <= x /\ x < e * 100000 + 50000

C14_TimeMatrix ==
    timeMatrix # <<>> =>
        LET locations == <<depot>> \o customers
            n == Len(locations)
            distance(i, j) == calculateDistance(locations[i].lat, locations[i].lng,
                                                locations[j].lat, locations[j].lng)
        IN  /\ Len(timeMatrix) = n
            /\ \A i \in 1..n : Len(timeMatrix[i]) = n
            /\ \A i \in 1..n : timeMatrix[i][i] = 0
            /\ \A i, j \in 1..n :
                  i # j => IsRounded(timeMatrix[i][j], distance(i, j) * 120)
            /\ \A i, j \in 1..n : timeMatrix[i][j] = timeMatrix[j][i]

\* reached: four locations with travel times 0, 1, 3 and 4 among them
C14_Witness ==
    /\ Len(timeMatrix) = 4
    /\ \A t \in {0, 1, 3, 4} : \E i, j \in 1..4 : i # j /\ timeMatrix[i][j] = t

---------------------------------------------------------------------------
\* C15 (as stated): a call with a malformed matrix (not square, or with fewer
\* rows or columns than customers.length + 1) is rejected with an
\* input-validation error: it returns no solution.

MatrixMalformed ==
    \/ Len(timeMatrix) < Len(customers) + 1
    \/ \E i \in 1..Len(timeMatrix) :
          \/ Len(timeMatrix[i]) # Len(timeMatrix)
          \/ Len(timeMatrix[i]) < Len(customers) + 1

C15_MalformedRejected == MatrixMalformed => ~Returned

---------------------------------------------------------------------------
\* C16: for well-formed input no call raises: the vehicle of every route is
\* found in vehicles, and every location a slot is made of (the locations of
\* the routes, the customers, the depot) has an index in [...customers, depot],
\* so that no slot is skipped for a missing index and no matrix read fails.

VehicleFound(route) == \E v \in 1..Len(vehicles) : vehicles[v].id = route.vehicleId

C16_NeverRaises ==
    /\ pc # "raised"
    /\ Started =>
          /\ \A r \in 1..Len(routes) :
                /\ VehicleFound(routes[r])
                /\ \A i \in 1..Len(routes[r].locations) :
                      FindIndex(routes[r].locations[i]) # 0
          /\ \A c \in 1..Len(sortedCustomers) :
                /\ FindIndex(sortedCustomers[c]) # 0
                /\ HasRow(FindIndex(sortedCustomers[c]))
          /\ FindIndex(depot) # 0 /\ HasRow(FindIndex(depot))

\* reached: a call that tried every slot of two routes for its last customer
C16_Witness ==
    /\ Returned /\ Len(customers) = MaxCustomers /\ Len(routes) = 2
    /\ \A r \in 1..2 : HasCustomers(routes[r])
    /\ \A r \in 1..2 : ~CapacityExceeded(routes[r], sortedCustomers[MaxCustomers])
    /\ Len(unassignedLocations) = 1

---------------------------------------------------------------------------
\* C17 (as stated): every returned route is time-window feasible when executed.
\* Leaving the depot at time 0, with arrival = max(previous departure + matrix
\* travel time, readyTime) and departure = arrival + serviceTime, every
\* customer of the route is reached no later than its dueTime.

\* the time at which the k-th location of the route is left
RECURSIVE DepartureAt(_, _)
DepartureAt(locations, k) ==
    IF k = 1 THEN 0
    ELSE LET reached == DepartureAt(locations, k - 1)
                            + Minutes(locations[k - 1], locations[k])
             arrival == IF reached < locations[k].readyTime
                        THEN locations[k].readyTime ELSE reached
         IN  arrival + locations[k].serviceTime

\* the time at which the k-th location of the route is reached, k > 1
SimulatedArrival(locations, k) ==
    LET reached == DepartureAt(locations, k - 1) + Minutes(locations[k - 1], locations[k])
    IN  IF reached < locations[k].readyTime THEN locations[k].readyTime ELSE reached

C17_RoutesExecutable ==
    Returned =>
        \A r \in 1..Len(solution.routes) :
            LET locations == solution.routes[r].locations
            IN  \A k \in 2..Len(locations) :
                    locations[k].id # depot.id
                        => SimulatedArrival(locations, k) <= locations[k].dueTime

---------------------------------------------------------------------------
\* C18 (as stated): when at least one slot passes all checks for the customer
\* being tried, the customer is inserted at the (route, position) of minimum
\* cost timeMatrix[prev][c] + timeMatrix[c][next] - timeMatrix[prev][next]
\* among the feasible slots of all routes, the first one in iteration order
\* among those of minimum cost.

\* a customer is being tried in this step
Trying == pc = "loop" /\ cursor <= Len(sortedCustomers)

\* the slots <<route, position of prev>> that pass all checks for the customer
FeasibleSlots(customer) ==
    {slot \in (1..Len(routes)) \X (1..(Len(customers) + 1)) :
        /\ slot[2] <= Len(routes[slot[1]].locations)
        /\ SlotFeasible(routes[slot[1]], slot[2], customer)}

Cost(slot, customer) ==
    LET route == routes[slot[1]]
        prev == route.locations[slot[2]]
        next == NextOf(route, slot[2])
    IN  Minutes(prev, customer) + Minutes(customer, next) - Minutes(prev, next)

\* iteration order: routes in vehicle order, then positions in route order
NotAfter(s, t) == s[1] < t[1] \/ (s[1] = t[1] /\ s[2] <= t[2])

\* this step puts the customer right after prev of the slot, and nowhere else
InsertedAt(slot, customer) ==
    LET before == routes[slot[1]].locations
        after == routes'[slot[1]].locations
    IN  /\ Len(after) = Len(before) + 1
        /\ \A k \in 1..slot[2] : after[k] = before[k]
        /\ after[slot[2] + 1] = customer
        /\ \A k \in (slot[2] + 1)..Len(before) : after[k + 1] = before[k]
        /\ \A r \in 1..Len(routes) :
              r # slot[1] => routes'[r].locations = routes[r].locations
        /\ unassignedLocations' = unassignedLocations

\* the slot has the least cost of the feasible slots, and is the first such
FirstCheapest(slot, customer) ==
    \A other \in FeasibleSlots(customer) :
        \/ Cost(slot, customer) < Cost(other, customer)
        \/ Cost(slot, customer) = Cost(other, customer) /\ NotAfter(slot, other)

C18_CheapestSlot ==
    [][Trying =>
        LET customer == sortedCustomers[cursor]
        IN  FeasibleSlots(customer) # {} =>
                \E slot \in FeasibleSlots(customer) :
                    InsertedAt(slot, customer) /\ FirstCheapest(slot, customer)]_vars

\* C18 (amended): when at least one slot passes all checks with a cost below
\* Number.MAX_VALUE, the customer is inserted at the first feasible slot of
\* minimum cost.
C18_CheapestSlotBelowMax ==
    [][Trying =>
        LET customer == sortedCustomers[cursor]
        IN  (\E slot \in FeasibleSlots(customer) : Cost(slot, customer) < MAX_VALUE) =>
                \E slot \in FeasibleSlots(customer) :
                    InsertedAt(slot, customer) /\ FirstCheapest(slot, customer)]_vars

\* the place of the customer of this id in the order of processing
TriedAt(id) == CHOOSE c \in 1..Len(sortedCustomers) : sortedCustomers[c].id = id

\* reached: with two routes to choose from, a customer was put in front of a
\* customer tried before it, and a second route was opened for another
C18_Witness ==
    /\ Returned /\ Len(routes) = 2 /\ HasCustomers(routes[2])
    /\ Len(routes[1].locations) = 4
    /\ TriedAt(routes[1].locations[2].id) > TriedAt(routes[1].locations[3].id)

---------------------------------------------------------------------------
\* C19: the customers are tried in ascending order of readyTime, those of
\* equal readyTime in input order, and unassignedLocations lists the
\* unassigned customers in that order.

\* the place of the customer of this id in the input list
InputPlace(id) == CHOOSE c \in 1..Len(customers) : customers[c].id = id

\* the ids of the customers that are on a route or unassigned
PlacedIds ==
    {routes[r].locations[i].id : <<r, i>> \in
        {slot \in (1..Len(routes)) \X (1..(Len(customers) + 2)) :
            /\ slot[2] <= Len(routes[slot[1]].locations)
            /\ routes[slot[1]].locations[slot[2]].id # depot.id}}
    \cup {unassignedLocations[u].id : u \in 1..Len(unassignedLocations)}

C19_TriedInReadyTimeOrder ==
    Started =>
        /\ Len(sortedCustomers) = Len(customers)
        /\ \A c \in 1..Len(customers) :
              \E k \in 1..Len(sortedCustomers) : sortedCustomers[k] = customers[c]
        /\ \A i, j \in 1..Len(sortedCustomers) :
              i < j =>
                /\ sortedCustomers[i].readyTime <= sortedCustomers[j].readyTime
                /\ sortedCustomers[i].readyTime = sortedCustomers[j].readyTime
                      => InputPlace(sortedCustomers[i].id) < InputPlace(sortedCustomers[j].id)
        /\ PlacedIds = {sortedCustomers[k].id : k \in 1..(cursor - 1)}
        /\ \A a, b \in 1..Len(unassignedLocations) :
              a < b => TriedAt(unassignedLocations[a].id) < TriedAt(unassignedLocations[b].id)

\* reached: an input that is not sorted, with two customers of equal
\* readyTime, and two customers unassigned
C19_Witness ==
    /\ Returned /\ Len(customers) = MaxCustomers
    /\ customers[1].readyTime > customers[2].readyTime
    /\ customers[2].readyTime = customers[3].readyTime
    /\ Len(unassignedLocations) = 2
    /\ unassignedLocations[1].id = customers[3].id

---------------------------------------------------------------------------
\* C20: a slot of a route is rejected by the direct check exactly when
\* max(route.totalTime + timeMatrix[prev][customer], readyTime) > dueTime, with
\* the one totalTime of the route for all its positions; a rejected slot is
\* never chosen. Seen from outside: the customer is never inserted at a late
\* slot; a route gets the direct check's reason for the customer only if one
\* of its slots is late; it gets it when the route has room for the customer
\* and its last slot is late; and a customer with a slot that is not late and
\* passes the other checks is not left unassigned.

\* the slot after the i-th location of the route is late for the customer
LateSlot(route, i, customer) ==
    LET reached == route.totalTime + Minutes(route.locations[i], customer)
    IN  (IF reached < customer.readyTime THEN customer.readyTime ELSE reached)
            > customer.dueTime

C20_DirectCheck ==
    [][Trying =>
        LET customer == sortedCustomers[cursor]
            reason == <<"No se puede llegar a tiempo a", customer.name>>
        IN  \A r \in 1..Len(routes) :
                LET route == routes[r]
                    last == Len(route.locations)
                IN  /\ \A i \in 1..last :
                          InsertedAt(<<r, i>>, customer) => ~LateSlot(route, i, customer)
                    /\ routes'[r].infeasibilityReason = reason
                          => \E i \in 1..last : LateSlot(route, i, customer)
                    /\ (~CapacityExceeded(route, customer) /\ LateSlot(route, last, customer))
                          => routes'[r].infeasibilityReason = reason
                    /\ (\E i \in 1..last :
                            /\ ~CapacityExceeded(route, customer)
                            /\ ~LateSlot(route, i, customer)
                            /\ ~CascadeLate(route, route.locations[i], customer,
                                            NextOf(route, i)))
                          => unassignedLocations' = unassignedLocations]_vars

\* reached: a customer refused by the direct check on the first route, which
\* holds other customers, and inserted into the second
C20_Witness ==
    /\ Returned /\ Len(routes) = 2 /\ HasCustomers(routes[1])
    /\ \E i \in 1..Len(routes[2].locations) :
          /\ routes[2].locations[i].id # depot.id
          /\ routes[1].infeasibilityReason =
                <<"No se puede llegar a tiempo a", routes[2].locations[i].name>>

---------------------------------------------------------------------------
\* C21: a slot that passed the direct check is rejected by the cascading
\* check exactly when next is not the depot and arrival + serviceTime +
\* timeMatrix[customer][next] > next.dueTime; a slot whose next is the depot
\* is not checked, nor are the stops after next. Seen from outside: the
\* customer is never inserted at such a slot; a route gets the cascading
\* reason for the customer only if one of its slots is such a slot, and gets
\* it when the last of its rejected slots is one; and a customer with a slot
\* that is neither late nor such a slot, on a route with room, is not left
\* unassigned.

\* inserting the customer after the i-th location makes the next stop late
DelaysNext(route, i, customer) ==
    LET next == NextOf(route, i)
        reached == route.totalTime + Minutes(route.locations[i], customer)
        arrival == IF reached < customer.readyTime THEN customer.readyTime ELSE reached
    IN  /\ next.id # depot.id
        /\ arrival + customer.serviceTime + Minutes(customer, next) > next.dueTime

C21_CascadeCheck ==
    [][Trying =>
        LET customer == sortedCustomers[cursor]
            reason == <<"La insercion de", customer.name,
                        "causaria retraso en siguiente cliente">>
        IN  \A r \in 1..Len(routes) :
                LET route == routes[r]
                    last == Len(route.locations)
                    Refused(i) == LateSlot(route, i, customer) \/ DelaysNext(route, i, customer)
                IN  /\ \A i \in 1..last :
                          InsertedAt(<<r, i>>, customer) => ~DelaysNext(route, i, customer)
                    /\ routes'[r].infeasibilityReason = reason
                          => \E i \in 1..last :
                                ~LateSlot(route, i, customer) /\ DelaysNext(route, i, customer)
                    /\ \A i \in 1..last :
                          ( /\ ~CapacityExceeded(route, customer)
                            /\ ~LateSlot(route, i, customer) /\ DelaysNext(route, i, customer)
                            /\ \A k \in (i + 1)..last : ~Refused(k) )
                          => routes'[r].infeasibilityReason = reason
                    /\ (\E i \in 1..last : ~CapacityExceeded(route, customer) /\ ~Refused(i))
                          => unassignedLocations' = unassignedLocations]_vars

\* reached: with a depot that closes at 0, a customer was refused in front of
\* a stop it would delay and inserted later on the same route
C21_Witness ==
    /\ Returned /\ depot.dueTime = 0
    /\ \E r \in 1..Len(routes) :
          /\ Len(routes[r].locations) = 4
          /\ routes[r].infeasibilityReason =
                <<"La insercion de", routes[r].locations[3].name,
                  "causaria retraso en siguiente cliente">>

---------------------------------------------------------------------------
\* C22 (as stated): the customer being tried is appended to
\* unassignedLocations exactly when no (route, position) passes the capacity,
\* direct and cascading checks, and then no route's locations, totalTime or
\* totalDistance change.

\* the slots <<route, position of prev>> that pass the three checks
PassingSlots(customer) ==
    {slot \in (1..Len(routes)) \X (1..(Len(customers) + 1)) :
        /\ slot[2] <= Len(routes[slot[1]].locations)
        /\ ~CapacityExceeded(routes[slot[1]], customer)
        /\ ~LateSlot(routes[slot[1]], slot[2], customer)
        /\ ~DelaysNext(routes[slot[1]], slot[2], customer)}

\* those of them whose cost is below Number.MAX_VALUE
UsableSlots(customer) ==
    {slot \in PassingSlots(customer) : Cost(slot, customer) < MAX_VALUE}

RoutesKept ==
    \A r \in 1..Len(routes) :
        /\ routes'[r].locations = routes[r].locations
        /\ routes'[r].totalTime = routes[r].totalTime
        /\ routes'[r].totalDistance = routes[r].totalDistance

C22_UnassignedIffNoSlot ==
    [][Trying =>
        LET customer == sortedCustomers[cursor]
        IN  IF PassingSlots(customer) = {}
            THEN unassignedLocations' = Append(unassignedLocations, customer) /\ RoutesKept
            ELSE unassignedLocations' = unassignedLocations]_vars

\* C22 (amended): the customer being tried is appended to unassignedLocations
\* exactly when no (route, position) passes the three checks with a cost below
\* Number.MAX_VALUE, and then no route's locations, totalTime or totalDistance
\* change.
C22_UnassignedIffNoUsableSlot ==
    [][Trying =>
        LET customer == sortedCustomers[cursor]
        IN  IF UsableSlots(customer) = {}
            THEN unassignedLocations' = Append(unassignedLocations, customer) /\ RoutesKept
            ELSE unassignedLocations' = unassignedLocations]_vars

\* reached: a customer is unassigned while a route holds customers and
\* another customer is still to be tried
C22_Witness ==
    /\ pc = "loop" /\ cursor = Len(sortedCustomers)
    /\ Len(unassignedLocations) = 1
    /\ Len(routes) = 1 /\ HasCustomers(routes[1])
    /\ routes[1].infeasibilityReason =
          <<"No se puede llegar a tiempo a", unassignedLocations[1].name>>

---------------------------------------------------------------------------
\* C23: infeasibilityReasons need not hold a reason for each unassigned
\* customer. A step that tries a customer appends it to unassignedLocations
\* without appending a reason exactly when some slot passes the three checks
\* but none does with a cost below Number.MAX_VALUE; such a step exists for a
\* square matrix of numbers and unique ids (C23_Witness).

C23_ReasonMissing ==
    [][Trying =>
        LET customer == sortedCustomers[cursor]
        IN  ( /\ unassignedLocations' = Append(unassignedLocations, customer)
              /\ infeasibilityReasons' = infeasibilityReasons )
            <=> (PassingSlots(customer) # {} /\ UsableSlots(customer) = {})]_vars

\* reached: a solution with an unassigned customer and no reason, for a
\* square matrix and unique ids
C23_Witness ==
    /\ Returned
    /\ \A i \in 1..Len(timeMatrix) : Len(timeMatrix[i]) = Len(customers) + 1
    /\ Len(timeMatrix) = Len(customers) + 1
    /\ UniqueIds(customers \o <<depot>>) /\ UniqueIds(vehicles)
    /\ Len(solution.unassignedLocations) > Len(solution.infeasibilityReasons)

---------------------------------------------------------------------------
\* C24: when the demand on a route plus the customer's demand exceeds the
\* vehicle's capacity, no position of the route is tried and the route's
\* infeasibilityReason becomes the capacity reason; otherwise it becomes the
\* reason of the last position of the route that is refused, and stays as it
\* was when no position is refused, also when the customer is inserted.
\* Nothing but the trying of a customer changes it.

\* the demand on the route plus the customer's exceeds the capacity of the
\* r-th vehicle, from which the r-th route was made
OverCapacity(r, customer) ==
    LET locations == routes[r].locations
    IN  SumTo([k \in 1..Len(locations) |-> locations[k].demand], Len(locations))
            + customer.demand > vehicles[r].capacity

\* the reason the search for a place for the customer leaves on route r
ReasonAfter(r, customer) ==
    LET route == routes[r]
        refused == {i \in 1..Len(route.locations) :
                       LateSlot(route, i, customer) \/ DelaysNext(route, i, customer)}
        last == CHOOSE i \in refused : \A k \in refused : k <= i
    IN  IF OverCapacity(r, customer)
        THEN <<"Capacidad insuficiente para cliente", customer.name>>
        ELSE IF refused = {} THEN route.infeasibilityReason
        ELSE IF LateSlot(route, last, customer)
        THEN <<"No se puede llegar a tiempo a", customer.name>>
        ELSE <<"La insercion de", customer.name, "causaria retraso en siguiente cliente">>

C24_LastRejectionWins ==
    [][/\ Trying =>
            LET customer == sortedCustomers[cursor]
            IN  \A r \in 1..Len(routes) :
                    /\ routes'[r].infeasibilityReason = ReasonAfter(r, customer)
                    /\ OverCapacity(r, customer)
                          => routes'[r].locations = routes[r].locations
       /\ (Started /\ ~Trying) =>
            \A r \in 1..Len(routes) :
                routes'[r].infeasibilityReason = routes[r].infeasibilityReason]_vars

\* reached: a route on which a customer was inserted keeps the capacity
\* reason of a customer tried before
C24_Witness ==
    /\ Returned /\ Len(routes) = 2 /\ UniqueIds(vehicles)
    /\ Len(routes[1].locations) = 4
    /\ \E c \in 1..Len(sortedCustomers), k \in 2..3 :
          /\ c < TriedAt(routes[1].locations[k].id)
          /\ routes[1].infeasibilityReason =
                <<"Capacidad insuficiente para cliente", sortedCustomers[c].name>>

---------------------------------------------------------------------------
\* C25: trying one customer changes the locations, totalTime and
\* totalDistance of at most one route; that route gains exactly the customer,
\* at one position, and its totalTime grows by the cost of that position; on
\* every other route only infeasibilityReason may change.

\* the routes of which this step changes one of the three fields
ChangedRoutes ==
    {r \in 1..Len(routes) :
        \/ routes'[r].locations # routes[r].locations
        \/ routes'[r].totalTime # routes[r].totalTime
        \/ routes'[r].totalDistance # routes[r].totalDistance}

C25_OneRouteChanges ==
    [][Trying =>
        LET customer == sortedCustomers[cursor]
        IN  /\ Len(routes') = Len(routes)
            /\ Cardinality(ChangedRoutes) <= 1
            /\ \A r \in ChangedRoutes :
                  \E i \in 1..Len(routes[r].locations) :
                      /\ InsertedAt(<<r, i>>, customer)
                      /\ routes'[r].totalTime =
                            routes[r].totalTime + Cost(<<r, i>>, customer)
            /\ \A r \in 1..Len(routes) :
                  /\ routes'[r].vehicleId = routes[r].vehicleId
                  /\ routes'[r].feasible = routes[r].feasible]_vars

\* reached: two routes with a customer each, the first of them with a
\* positive totalTime and a reason left by the customer on the second
C25_Witness ==
    /\ pc = "loop" /\ cursor = 3 /\ Len(routes) = 2
    /\ Len(routes[1].locations) = 2 /\ Len(routes[2].locations) = 2
    /\ routes[1].totalTime > 0
    /\ routes[1].infeasibilityReason # <<>>
    /\ routes[1].infeasibilityReason[2] = routes[2].locations[2].name

---------------------------------------------------------------------------
\* C26: for a matrix whose depot-to-depot entry is 0, from the first
\* insertion on each route's totalTime is the sum of the matrix entries along
\* its location sequence closed with a return to the depot (0 for a route
\* that holds only the depot).

\* the sequence of the route, with the return to the depot if it lacks it
Closed(locations) ==
    IF Len(locations) > 1 /\ locations[Len(locations)].id = depot.id
    THEN locations
    ELSE Append(locations, depot)

ClosedRouteTime(locations) ==
    LET closed == Closed(locations)
    IN  SumTo([k \in 1..(Len(closed) - 1) |-> Minutes(closed[k], closed[k + 1])],
              Len(closed) - 1)

C26_TotalTimeIsClosedRouteTime ==
    (Started /\ Minutes(depot, depot) = 0) =>
        \A r \in 1..Len(routes) :
            routes[r].totalTime = ClosedRouteTime(routes[r].locations)

\* reached: a customer was inserted between the depot and a customer tried
\* before it, away from that customer
C26_Witness ==
    /\ pc = "loop" /\ Minutes(depot, depot) = 0
    /\ \E r \in 1..Len(routes) :
          /\ Len(routes[r].locations) >= 3
          /\ TriedAt(routes[r].locations[2].id) > TriedAt(routes[r].locations[3].id)
          /\ Minutes(routes[r].locations[2], routes[r].locations[3]) > 0
          /\ routes[r].totalTime > 0

---------------------------------------------------------------------------
\* C27: a click on the solve button sets isSolving, and the button stays
\* disabled until the deferred call of solveVRPTW has run, so at most one
\* call is pending; isSolving always returns to false, also when solveVRPTW
\* throws, and then the displayed solution stays as it was.

C27_SolveButton ==
    /\ [](pending <= 1)
    /\ [](isSolving <=> pending = 1)
    /\ isSolving ~> ~isSolving
    /\ [][pc = "raised" => (displayed' = displayed /\ ~isSolving')]_vars

\* reached: solveVRPTW threw in the deferred call, with the button disabled
C27_Witness == pc = "raised" /\ isSolving /\ pending = 1 /\ Len(customers) = 1

---------------------------------------------------------------------------
(* The lists of the application and the handlers that edit them *)

\* at most this many added entries are in a list at a time
MaxAdded == 2

\* exampleCustomers; lat and lng in ten-thousandths of a degree, which the
\* handlers below copy without reading
exampleCustomers ==
    <<
      [id |-> "c1", name |-> "Juan Perez - Tienda Miraflores",
       lat |-> -121219, lng |-> -770299, demand |-> 15,
       readyTime |-> 540, dueTime |-> 720, serviceTime |-> 15],
      [id |-> "c2", name |-> "Maria Garcia - Tienda San Isidro",
       lat |-> -120964, lng |-> -770353, demand |-> 20,
       readyTime |-> 600, dueTime |-> 780, serviceTime |-> 20],
      [id |-> "c3", name |-> "Carlos Lopez - Tienda San Miguel",
       lat |-> -120776, lng |-> -770824, demand |-> 8,
       readyTime |-> 660, dueTime |-> 840, serviceTime |-> 10],
      [id |-> "c4", name |-> "Ana Torres - Tienda La Molina",
       lat |-> -120867, lng |-> -769424, demand |-> 12,
       readyTime |-> 480, dueTime |-> 660, serviceTime |-> 25],
      [id |-> "c5", name |-> "Luis Ramirez - Tienda Surco",
       lat |-> -121416, lng |-> -769938, demand |-> 18,
       readyTime |-> 540, dueTime |-> 900, serviceTime |-> 15],
      [id |-> "c6", name |-> "Rosa Mendoza - Tienda Jesus Maria",
       lat |-> -120705, lng |-> -770498, demand |-> 14,
       readyTime |-> 720, dueTime |-> 900, serviceTime |-> 20],
      [id |-> "c7", name |-> "Jorge Castro - Tienda San Borja",
       lat |-> -121066, lng |-> -769989, demand |-> 25,
       readyTime |-> 780, dueTime |-> 960, serviceTime |-> 30],
      [id |-> "c8", name |-> "Patricia Flores - Tienda Pueblo Libre",
       lat |-> -120768, lng |-> -770647, demand |-> 10,
       readyTime |-> 540, dueTime |-> 720, serviceTime |-> 15],
      [id |-> "c9", name |-> "Miguel Rios - Tienda Magdalena",
       lat |-> -120896, lng |-> -770728, demand |-> 16,
       readyTime |-> 660, dueTime |-> 840, serviceTime |-> 20],
      [id |-> "c10", name |-> "Carmen Vargas - Tienda Lince",
       lat |-> -120826, lng |-> -770367, demand |-> 22,
       readyTime |-> 840, dueTime |-> 1020, serviceTime |-> 25]
    >>

\* exampleVehicles
exampleVehicles ==
    << [id |-> "v1", capacity |-> 50],
       [id |-> "v2", capacity |-> 60],
       [id |-> "v3", capacity |-> 45] >>

\* the value "HH:MM" of a time input, as <<hours, minutes>>
TimeInputs == {<<8, 0>>, <<17, 0>>}

\* const [hours, minutes] = time.split(':').map(Number); hours * 60 + minutes
timeToMinutes(time) == time[1] * 60 + time[2]

\* the name typed into a form
TypedNames == {"", "Nuevo"}

\* names given to customers added on the map without a typed name
defaultNames ==
    << "Roberto Silva", "Diana Paz", "Fernando Ruiz", "Laura Vega",
       "Andres Mora", "Sofia Luna", "Gabriel Cruz", "Isabel Reyes",
       "Martin Soto", "Valentina Diaz" >>

\* `c${customers.length + 11}`
NextCustomerId == "c" \o ToString(Len(customers) + 11)

\* `v${vehicles.length + 1}`
NextVehicleId == "v" \o ToString(Len(vehicles) + 1)

\* the customers of the list that are not example customers
AddedCustomers ==
    {i \in 1..Len(customers) :
        \A e \in 1..Len(exampleCustomers) : customers[i].id # exampleCustomers[e].id}

\* useState(exampleCustomers), useState(exampleVehicles)
InitLists ==
    /\ depot = Depot
    /\ customers = exampleCustomers
    /\ vehicles = exampleVehicles
    /\ timeMatrix = <<>>
    /\ InitSolver

\* the panel's handleAddCustomer: the name and the window are validated
AddCustomerPanel ==
    /\ Cardinality(AddedCustomers) < MaxAdded
    /\ \E newCustomerName \in TypedNames, newCustomerReadyTime \in TimeInputs,
          newCustomerDueTime \in TimeInputs :
         LET readyTimeMinutes == timeToMinutes(newCustomerReadyTime)
             dueTimeMinutes == timeToMinutes(newCustomerDueTime)
         IN  /\ newCustomerName # ""
             /\ ~(dueTimeMinutes <= readyTimeMinutes)
             /\ customers' = Append(customers,
                    [id |-> NextCustomerId, name |-> newCustomerName,
                     lat |-> -120464, lng |-> -770428, demand |-> 10,
                     readyTime |-> readyTimeMinutes, dueTime |-> dueTimeMinutes,
                     serviceTime |-> 15])
    /\ UNCHANGED <<depot, vehicles, timeMatrix, sortedCustomers, routes,
                   unassignedLocations, infeasibilityReasons, cursor, pc, solution, ui>>

\* the map's handleAddCustomer, after a click on the map and the modal:
\* the window is stored as entered
AddCustomerMap ==
    /\ Cardinality(AddedCustomers) < MaxAdded
    /\ \E newCustomerName \in TypedNames, ready \in TimeInputs, due \in TimeInputs :
         customers' = Append(customers,
             [id |-> NextCustomerId,
              name |-> IF newCustomerName # "" THEN newCustomerName
                       ELSE defaultNames[(Len(customers) % Len(defaultNames)) + 1],
              lat |-> -120500, lng |-> -770400, demand |-> 10,
              readyTime |-> timeToMinutes(ready), dueTime |-> timeToMinutes(due),
              serviceTime |-> 15])
    /\ UNCHANGED <<depot, vehicles, timeMatrix, sortedCustomers, routes,
                   unassignedLocations, infeasibilityReasons, cursor, pc, solution, ui>>

\* handleRemoveCustomer: customers.filter(c => c.id !== customerId), on the
\* first row of the list
RemoveCustomer ==
    /\ Len(customers) > 0
    /\ LET customerId == customers[1].id
       IN  customers' = SelectSeq(customers, LAMBDA c : c.id # customerId)
    /\ UNCHANGED <<depot, vehicles, timeMatrix, sortedCustomers, routes,
                   unassignedLocations, infeasibilityReasons, cursor, pc, solution, ui>>

\* handleCustomerChange for the fields readyTime and dueTime, on the last row:
\* the "HH:MM" value becomes minutes in every customer with the id of that row
ChangeCustomerTime ==
    /\ Len(customers) > 0
    /\ \E field \in {"readyTime", "dueTime"}, value \in TimeInputs :
         customers' = [c \in 1..Len(customers) |->
                          IF customers[c].id = customers[Len(customers)].id
                          THEN [customers[c] EXCEPT ![field] = timeToMinutes(value)]
                          ELSE customers[c]]
    /\ UNCHANGED <<depot, vehicles, timeMatrix, sortedCustomers, routes,
                   unassignedLocations, infeasibilityReasons, cursor, pc, solution, ui>>

NextCustomers == AddCustomerPanel \/ AddCustomerMap \/ RemoveCustomer \/ ChangeCustomerTime

SpecCustomers == InitLists /\ [][NextCustomers]_vars

\* the capacity entered for a new vehicle: the default of the field, or more
NewCapacities == {50, 80}

\* handleAddVehicle: the new vehicle takes its depot from vehicles[0], which
\* raises a TypeError on an empty fleet and leaves the list as it is
AddVehicle ==
    /\ Len(vehicles) < Len(exampleVehicles) + MaxAdded
    /\ Len(vehicles) > 0
    /\ \E newVehicleCapacity \in NewCapacities :
         vehicles' = Append(vehicles, [id |-> NextVehicleId, capacity |-> newVehicleCapacity])
    /\ UNCHANGED <<depot, customers, timeMatrix, sortedCustomers, routes,
                   unassignedLocations, infeasibilityReasons, cursor, pc, solution, ui>>

\* handleRemoveVehicle: vehicles.filter(v => v.id !== vehicleId)
RemoveVehicle ==
    /\ \E i \in 1..Len(vehicles) :
         vehicles' = SelectSeq(vehicles, LAMBDA v : v.id # vehicles[i].id)
    /\ UNCHANGED <<depot, customers, timeMatrix, sortedCustomers, routes,
                   unassignedLocations, infeasibilityReasons, cursor, pc, solution, ui>>

NextFleet == AddVehicle \/ RemoveVehicle

SpecFleet == InitLists /\ [][NextFleet]_vars

---------------------------------------------------------------------------
(* The identifiers and the windows of the edited lists *)

\* C28: after any sequence of additions (panel or map) and removals that
\* starts from the example customers, the customers of the list have
\* pairwise distinct ids
C28_CustomerIdsDistinct ==
    \A i, j \in 1..Len(customers) : i # j => customers[i].id # customers[j].id

\* C29: after any sequence of additions and removals that starts from the
\* example fleet, the vehicles have pairwise distinct ids, and the lookup of a
\* route's vehicle by the id of the vehicle it was created for returns that vehicle
C29_VehicleIdsDistinct ==
    /\ \A v, w \in 1..Len(vehicles) : v # w => vehicles[v].id # vehicles[w].id
    /\ \A v \in 1..Len(vehicles) : FindVehicle(NewRoute(vehicles[v]).vehicleId) = vehicles[v]

\* C30: after any sequence of additions (panel or map) and edits of readyTime
\* or dueTime, every customer of the list has readyTime <= dueTime
C30_WindowsOrdered ==
    \A i \in 1..Len(customers) : customers[i].readyTime <= customers[i].dueTime

=============================================================================
